---- MODULE Spec2Model ----
(***************************************************************************)
(* A model of resolv-conf's grammar engine (src/src/grammar.rs): parse()   *)
(* turns a byte buffer into a Config or the first ParseError.              *)
(*                                                                         *)
(* Buffers are TLA+ strings, one character per byte: the bytes of ASCII,   *)
(* and BadByte, which stands for a byte that is not valid UTF-8 (0xFF).    *)
(* Lists are sequences, Option<T> is a sequence of length 0 (None) or 1    *)
(* (Some), enum values are records with a tag.                             *)
(***************************************************************************)
EXTENDS Integers, Sequences, FiniteSets, TLC

\* bytes: the buffer given to parse(); lines: the iterator of the loop, as
\* the items <<index, content>> it has yet to yield, the first of them being
\* the line at hand; words: the words of the line at hand once it has a
\* keyword, <<>> before; cfg: the Config being built; result: Running, or
\* what parse() returned.
VARIABLES bytes, lines, words, cfg, result

vars == <<bytes, lines, words, cfg, result>>

(***************************************************************************)
(* Text primitives of the standard library, as parse() uses them.          *)
(***************************************************************************)

\* The i-th byte of s (1-based), as a string of length 1.
Char(s, i) == SubSeq(s, i, i)

\* Stands for the byte 0xFF, which is never part of valid UTF-8.
BadByte == "~"

\* std::str::from_utf8(content).is_ok()
from_utf8_ok(s) == \A i \in 1..Len(s) : Char(s, i) # BadByte

\* The byte 0x0B (vertical tab), which has no escape in a string: the
\* string below holds the byte itself.
VTab == ""

\* char::is_whitespace on a one-byte character: U+0009..U+000D and U+0020.
\* The other characters of White_Space (U+0085, U+00A0, U+1680, ...) take
\* two or three bytes in UTF-8, none of which a buffer of the model holds.
is_whitespace(c) == c \in {"\t", "\n", VTab, "\f", "\r", " "}

\* Index of the first byte of s at or after i that is in set seps, or
\* Len(s) + 1 if there is none.
RECURSIVE FindFrom(_, _, _)
FindFrom(s, seps, i) ==
    IF i > Len(s) THEN Len(s) + 1
    ELSE IF Char(s, i) \in seps THEN i
    ELSE FindFrom(s, seps, i + 1)

\* s.split(seps).collect(): every piece between separators, empty pieces kept.
RECURSIVE Split(_, _)
Split(s, seps) ==
    LET k == FindFrom(s, seps, 1)
    IN  IF k > Len(s) THEN <<s>>
        ELSE <<SubSeq(s, 1, k - 1)>> \o Split(SubSeq(s, k + 1, Len(s)), seps)

\* s.splitn(2, sep).collect(): split at the first separator only.
SplitN2(s, sep) ==
    LET k == FindFrom(s, {sep}, 1)
    IN  IF k > Len(s) THEN <<s>>
        ELSE <<SubSeq(s, 1, k - 1), SubSeq(s, k + 1, Len(s))>>

\* s.split_whitespace().collect(): the maximal runs of non-whitespace.
RECURSIVE SkipWs(_, _)
SkipWs(s, i) ==
    IF i <= Len(s) /\ is_whitespace(Char(s, i)) THEN SkipWs(s, i + 1) ELSE i

RECURSIVE WordEnd(_, _)
WordEnd(s, i) ==
    IF i <= Len(s) /\ ~is_whitespace(Char(s, i)) THEN WordEnd(s, i + 1) ELSE i

RECURSIVE WordsFrom(_, _)
WordsFrom(s, i) ==
    LET b == SkipWs(s, i)
    IN  IF b > Len(s) THEN <<>>
        ELSE LET e == WordEnd(s, b)
             IN  <<SubSeq(s, b, e - 1)>> \o WordsFrom(s, e)

split_whitespace(s) == WordsFrom(s, 1)

Digits == {"0", "1", "2", "3", "4", "5", "6", "7", "8", "9"}

DigitVal(c) ==
    CASE c = "0" -> 0 [] c = "1" -> 1 [] c = "2" -> 2 [] c = "3" -> 3
      [] c = "4" -> 4 [] c = "5" -> 5 [] c = "6" -> 6 [] c = "7" -> 7
      [] c = "8" -> 8 [] c = "9" -> 9

HexDigits == Digits \cup {"a", "b", "c", "d", "e", "f", "A", "B", "C", "D", "E", "F"}

HexVal(c) ==
    CASE c \in Digits -> DigitVal(c)
      [] c \in {"a", "A"} -> 10 [] c \in {"b", "B"} -> 11
      [] c \in {"c", "C"} -> 12 [] c \in {"d", "D"} -> 13
      [] c \in {"e", "E"} -> 14 [] c \in {"f", "F"} -> 15

AllIn(s, set) == \A i \in 1..Len(s) : Char(s, i) \in set

\* The value of a string of digits in the given radix.
RECURSIVE NumVal(_, _)
NumVal(s, radix) ==
    IF Len(s) = 0 THEN 0
    ELSE NumVal(SubSeq(s, 1, Len(s) - 1), radix) * radix + HexVal(Char(s, Len(s)))

\* Results of fallible calls: <<v>> is Ok(v), <<>> is Err(_).
Ok(v) == <<v>>
Err == <<>>
IsOk(r) == Len(r) = 1

\* A u32 is the pair <<high half, low half>> of its 16-bit halves, so that
\* every thirty-two bit value has a representation.
U32(n) == <<n \div 65536, n % 65536>>

\* acc * 10 + d on a u32, as checked_mul and checked_add compute it: Err on
\* overflow of thirty-two bits.
CheckedPush(acc, d) ==
    LET lo == acc[2] * 10 + d
        hi == acc[1] * 10 + (lo \div 65536)
    IN  IF hi > 65535 THEN Err ELSE Ok(<<hi, lo % 65536>>)

RECURSIVE ParseDigitsU32(_, _, _)
ParseDigitsU32(s, i, acc) ==
    IF i > Len(s) THEN Ok(acc)
    ELSE IF Char(s, i) \notin Digits THEN Err
    ELSE LET n == CheckedPush(acc, DigitVal(Char(s, i)))
         IN  IF IsOk(n) THEN ParseDigitsU32(s, i + 1, n[1]) ELSE Err

\* str::parse::<u32>(): an optional '+', then one or more decimal digits,
\* and the value must fit thirty-two bits.
ParseU32(s) ==
    LET d == IF Len(s) > 0 /\ Char(s, 1) = "+" THEN SubSeq(s, 2, Len(s)) ELSE s
    IN  IF Len(d) = 0 THEN Err ELSE ParseDigitsU32(d, 1, U32(0))

\* One octet of a dotted IPv4 literal: 1 to 3 digits, no leading zero, <= 255.
OctetOk(s) ==
    /\ Len(s) \in 1..3
    /\ AllIn(s, Digits)
    /\ (Len(s) > 1 => Char(s, 1) # "0")
    /\ NumVal(s, 10) <= 255

\* str::parse::<Ipv4Addr>(): four octets separated by '.'.
ParseIpv4(s) ==
    LET p == Split(s, {"."})
    IN  IF Len(p) = 4 /\ \A i \in 1..4 : OctetOk(p[i])
        THEN Ok([i \in 1..4 |-> NumVal(p[i], 10)])
        ELSE Err

\* One group of an IPv6 literal: 1 to 4 hex digits.
GroupOk(s) == Len(s) \in 1..4 /\ AllIn(s, HexDigits)

\* The groups of one side of an IPv6 literal ("" is no group at all): a
\* sequence of 16-bit values, the last of which may be a dotted IPv4 tail.
Ipv6Side(s, tail) ==
    IF s = "" THEN Ok(<<>>)
    ELSE LET p == Split(s, {":"})
             n == Len(p)
             v4 == IF tail THEN ParseIpv4(p[n]) ELSE Err
             m == IF IsOk(v4) THEN n - 1 ELSE n
         IN  IF \A i \in 1..m : GroupOk(p[i])
             THEN Ok([i \in 1..m |-> NumVal(p[i], 16)] \o
                     (IF IsOk(v4)
                      THEN <<v4[1][1] * 256 + v4[1][2], v4[1][3] * 256 + v4[1][4]>>
                      ELSE <<>>))
             ELSE Err

\* Index of the first "::" of s, or 0.
RECURSIVE FindGap(_, _)
FindGap(s, i) ==
    IF i >= Len(s) THEN 0
    ELSE IF SubSeq(s, i, i + 1) = "::" THEN i
    ELSE FindGap(s, i + 1)

\* str::parse::<Ipv6Addr>(): eight groups, or fewer around one "::".
ParseIpv6(s) ==
    LET g == FindGap(s, 1)
    IN  IF g = 0
        THEN LET a == Ipv6Side(s, TRUE)
             IN  IF s # "" /\ IsOk(a) /\ Len(a[1]) = 8 THEN a ELSE Err
        ELSE LET a == Ipv6Side(SubSeq(s, 1, g - 1), FALSE)
                 b == Ipv6Side(SubSeq(s, g + 2, Len(s)), TRUE)
             IN  IF IsOk(a) /\ IsOk(b) /\ Len(a[1]) + Len(b[1]) <= 7
                 THEN Ok(a[1] \o [i \in 1..(8 - Len(a[1]) - Len(b[1])) |-> 0] \o b[1])
                 ELSE Err

(***************************************************************************)
(* The Config aggregate and the values it holds.                           *)
(***************************************************************************)

\* Config::default(): empty lists, no domain, every flag false, and the
\* resolver's customary numeric defaults.
DefaultConfig ==
    [nameservers |-> <<>>, domain |-> <<>>, search |-> <<>>, sortlist |-> <<>>,
     debug |-> FALSE, ndots |-> U32(1), timeout |-> U32(5), attempts |-> U32(2),
     rotate |-> FALSE, no_check_names |-> FALSE, inet6 |-> FALSE,
     ip6_bytestring |-> FALSE, ip6_dotint |-> FALSE, edns0 |-> FALSE,
     single_request |-> FALSE, single_request_reopen |-> FALSE,
     no_reload |-> FALSE, trust_ad |-> FALSE, no_tld_query |-> FALSE,
     use_vc |-> FALSE, lookup |-> <<>>, family |-> <<>>]

\* Config::set_domain(dom)
set_domain(c, dom) == [c EXCEPT !.domain = <<dom>>]

\* Config::set_search(list)
set_search(c, list) == [c EXCEPT !.search = list]

\* str::parse::<Ip>(): an IPv4 or an IPv6 literal (no scope in this grammar).
ParseIp(s) ==
    LET a == ParseIpv4(s)
        b == ParseIpv6(s)
    IN  IF IsOk(a) THEN Ok([v |-> "V4", addr |-> a[1]])
        ELSE IF IsOk(b) THEN Ok([v |-> "V6", addr |-> b[1]])
        ELSE Err

V4(addr, mask) == [v |-> "V4", addr |-> addr, mask |-> mask]
V6(addr, mask) == [v |-> "V6", addr |-> addr, mask |-> mask]

(***************************************************************************)
(* Network literals: ip_v4_netw and ip_v6_netw.                            *)
(***************************************************************************)

\* Bit i (0 is the lowest) of a u32 below 2^31.
Bit(x, i) == IF i > 30 THEN 0 ELSE (x \div (2 ^ i)) % 2

\* x & !y on thirty-two bits, for x and y below 2^31.
RECURSIVE AndNotFrom(_, _, _)
AndNotFrom(x, y, i) ==
    IF i > 31 THEN 0
    ELSE (IF Bit(x, i) = 1 /\ Bit(y, i) = 0 THEN 2 ^ i ELSE 0) + AndNotFrom(x, y, i + 1)

AndNot(x, y) == AndNotFrom(x, y, 0)

\* ip.octets().iter().fold(0, |acc, &x| acc + u32::from(x))
OctetSum(octets) == octets[1] + octets[2] + octets[3] + octets[4]

\* The "valid mask" test of ip_v4_netw, on the operand the code gives it.
MaskRejected(ip, mask) ==
    LET value == OctetSum(ip)
    IN  value = 0 \/ AndNot(value, value) # 0

\* The guess with its tests in the wrong order: the second octet first.
GuessMaskOutOfOrder(octets) ==
    IF octets[2] = 0 THEN <<255, 0, 0, 0>>
    ELSE IF octets[3] = 0 THEN <<255, 255, 0, 0>>
    ELSE IF octets[4] = 0 THEN <<255, 255, 255, 0>>
    ELSE <<255, 255, 255, 255>>

\* The mask guessed for an address given without one.
GuessMask(octets) ==
    IF octets[4] = 0
    THEN IF octets[3] = 0
         THEN IF octets[2] = 0
              THEN <<255, 0, 0, 0>>
              ELSE <<255, 255, 0, 0>>
         ELSE <<255, 255, 255, 0>>
    ELSE <<255, 255, 255, 255>>

ip_v4_netw(val) ==
    LET pair == SplitN2(val, "/")
        ip == ParseIpv4(pair[1])
    IN  IF ~IsOk(ip) THEN Err
        ELSE IF ip[1] = <<0, 0, 0, 0>> THEN Err
        ELSE IF Len(pair) = 2
             THEN LET mask == ParseIpv4(pair[2])
                  IN  IF ~IsOk(mask) THEN Err
                      ELSE IF MaskRejected(ip[1], mask[1]) THEN Err
                      ELSE Ok(V4(ip[1], mask[1]))
             ELSE Ok(V4(ip[1], GuessMask(ip[1])))

AllOnesV6 == <<65535, 65535, 65535, 65535, 65535, 65535, 65535, 65535>>

ip_v6_netw(val) ==
    LET pair == SplitN2(val, "/")
        ip == ParseIpv6(pair[1])
    IN  IF ~IsOk(ip) THEN Err
        ELSE IF Len(pair) = 2
             THEN LET msk == ParseIpv6(pair[2])
                  IN  IF IsOk(msk) THEN Ok(V6(ip[1], msk[1])) ELSE Err
             ELSE Ok(V6(ip[1], AllOnesV6))

\* ip_v4_netw(pair).or_else(|_| ip_v6_netw(pair))
ParseNetwork(pair) ==
    LET a == ip_v4_netw(pair)
    IN  IF IsOk(a) THEN a ELSE ip_v6_netw(pair)

(***************************************************************************)
(* One iteration of the loop of parse(), as a function of the Config so    *)
(* far, the line's bytes and its index.  Its outcome is either Continue    *)
(* with the Config as the line leaves it, or Return of a ParseError.       *)
(***************************************************************************)

Continue(c) == [tag |-> "Continue", cfg |-> c]
Return(kind, n) == [tag |-> "Return", kind |-> kind, line |-> n]

\* The scan over the leading bytes of a line: TRUE when the first byte that
\* is neither a tab nor a space is ';' or '#'.
RECURSIVE CommentScan(_, _)
CommentScan(content, i) ==
    IF i > Len(content) THEN FALSE
    ELSE IF Char(content, i) # "\t" /\ Char(content, i) # " "
         THEN Char(content, i) = ";" \/ Char(content, i) = "#"
         ELSE CommentScan(content, i + 1)

\* The test on the first byte alone, leading tabs and spaces not skipped.
IsFullCommentFirstByte(content) ==
    Len(content) > 0 /\ (Char(content, 1) = ";" \/ Char(content, 1) = "#")

IsFullComment(content) == CommentScan(content, 1)

\* The words of a line that passed from_utf8: what precedes the first ';'
\* or '#', split on whitespace.
Words(content) ==
    split_whitespace(SubSeq(content, 1, FindFrom(content, {";", "#"}, 1) - 1))

DirNameserver(c, ws, n) ==
    IF Len(ws) < 2 THEN Return("InvalidValue", n)
    ELSE LET srv == ParseIp(ws[2])
         IN  IF ~IsOk(srv) THEN Return("InvalidIp", n)
             ELSE IF Len(ws) > 2 THEN Return("ExtraData", n)
             ELSE Continue([c EXCEPT !.nameservers = Append(@, srv[1])])

DirDomain(c, ws, n) ==
    IF Len(ws) < 2 THEN Return("InvalidValue", n)
    ELSE IF Len(ws) > 2 THEN Return("ExtraData", n)
    ELSE Continue(set_domain(c, ws[2]))

\* The search list extended instead of replaced.
DirSearchAppend(c, ws, n) == Continue(set_search(c, c.search \o Tail(ws)))

DirSearch(c, ws, n) == Continue(set_search(c, Tail(ws)))

RECURSIVE SortlistLoop(_, _, _, _)
SortlistLoop(c, ws, i, n) ==
    IF i > Len(ws) THEN Continue(c)
    ELSE LET netw == ParseNetwork(ws[i])
         IN  IF ~IsOk(netw) THEN Return("InvalidIp", n)
             ELSE SortlistLoop([c EXCEPT !.sortlist = Append(@, netw[1])],
                               ws, i + 1, n)

\* The sortlist rebuilt without the clear() before the loop.
DirSortlistNoClear(c, ws, n) == SortlistLoop(c, ws, 2, n)

DirSortlist(c, ws, n) ==
    SortlistLoop([c EXCEPT !.sortlist = <<>>], ws, 2, n)

\* The arms of the match on (key, value) that take a number: the value
\* parsed as u32, or InvalidOptionValue.
NumericOption(c, key, x, n) ==
    LET v == ParseU32(x)
    IN  IF ~IsOk(v) THEN Return("InvalidOptionValue", n)
        ELSE CASE key = "ndots" -> Continue([c EXCEPT !.ndots = v[1]])
               [] key = "timeout" -> Continue([c EXCEPT !.timeout = v[1]])
               [] key = "attempts" -> Continue([c EXCEPT !.attempts = v[1]])

FlagKeys ==
    {"debug", "rotate", "no-check-names", "inet6", "ip6-bytestring",
     "ip6-dotint", "no-ip6-dotint", "edns0", "single-request",
     "single-request-reopen", "no-reload", "trust-ad", "no-tld-query", "use-vc"}

ValueKeys == {"ndots", "timeout", "attempts"}

\* The flag arms with both dotint keywords setting the flag: a slip of
\* copying one arm to make the other.
FlagOptionBothSet(c, key) ==
    CASE key = "debug" -> [c EXCEPT !.debug = TRUE]
      [] key = "rotate" -> [c EXCEPT !.rotate = TRUE]
      [] key = "no-check-names" -> [c EXCEPT !.no_check_names = TRUE]
      [] key = "inet6" -> [c EXCEPT !.inet6 = TRUE]
      [] key = "ip6-bytestring" -> [c EXCEPT !.ip6_bytestring = TRUE]
      [] key = "ip6-dotint" -> [c EXCEPT !.ip6_dotint = TRUE]
      [] key = "no-ip6-dotint" -> [c EXCEPT !.ip6_dotint = TRUE]
      [] key = "edns0" -> [c EXCEPT !.edns0 = TRUE]
      [] key = "single-request" -> [c EXCEPT !.single_request = TRUE]
      [] key = "single-request-reopen" -> [c EXCEPT !.single_request_reopen = TRUE]
      [] key = "no-reload" -> [c EXCEPT !.no_reload = TRUE]
      [] key = "trust-ad" -> [c EXCEPT !.trust_ad = TRUE]
      [] key = "no-tld-query" -> [c EXCEPT !.no_tld_query = TRUE]
      [] key = "use-vc" -> [c EXCEPT !.use_vc = TRUE]

\* The arms of the match on (key, _) that assign a flag.
FlagOption(c, key) ==
    CASE key = "debug" -> [c EXCEPT !.debug = TRUE]
      [] key = "rotate" -> [c EXCEPT !.rotate = TRUE]
      [] key = "no-check-names" -> [c EXCEPT !.no_check_names = TRUE]
      [] key = "inet6" -> [c EXCEPT !.inet6 = TRUE]
      [] key = "ip6-bytestring" -> [c EXCEPT !.ip6_bytestring = TRUE]
      [] key = "ip6-dotint" -> [c EXCEPT !.ip6_dotint = TRUE]
      [] key = "no-ip6-dotint" -> [c EXCEPT !.ip6_dotint = FALSE]
      [] key = "edns0" -> [c EXCEPT !.edns0 = TRUE]
      [] key = "single-request" -> [c EXCEPT !.single_request = TRUE]
      [] key = "single-request-reopen" -> [c EXCEPT !.single_request_reopen = TRUE]
      [] key = "no-reload" -> [c EXCEPT !.no_reload = TRUE]
      [] key = "trust-ad" -> [c EXCEPT !.trust_ad = TRUE]
      [] key = "no-tld-query" -> [c EXCEPT !.no_tld_query = TRUE]
      [] key = "use-vc" -> [c EXCEPT !.use_vc = TRUE]

\* match (key, value): value is <<x>> for Some(x) and <<>> for None.
OptionMatch(c, key, value, n) ==
    IF key \in FlagKeys THEN Continue(FlagOption(c, key))
    ELSE IF key \in ValueKeys /\ Len(value) = 1
         THEN NumericOption(c, key, value[1], n)
    ELSE Return("InvalidOption", n)

\* One token of an options line: pair.splitn(2, ':') gives the key, then
\* the value if any, and ExtraData if the iterator holds a third item.
OptionPair(c, pair, n) ==
    LET iter == SplitN2(pair, ":")
        key == iter[1]
        value == IF Len(iter) >= 2 THEN <<iter[2]>> ELSE <<>>
    IN  IF Len(iter) >= 3 THEN Return("ExtraData", n)
        ELSE OptionMatch(c, key, value, n)

RECURSIVE OptionsLoop(_, _, _, _)
OptionsLoop(c, ws, i, n) ==
    IF i > Len(ws) THEN Continue(c)
    ELSE LET out == OptionPair(c, ws[i], n)
         IN  IF out.tag = "Return" THEN out
             ELSE OptionsLoop(out.cfg, ws, i + 1, n)

DirOptions(c, ws, n) == OptionsLoop(c, ws, 2, n)

LookupOf(word) ==
    CASE word = "file" -> [tag |-> "File"]
      [] word = "bind" -> [tag |-> "Bind"]
      [] OTHER -> [tag |-> "Extra", name |-> word]

DirLookup(c, ws, n) ==
    Continue([c EXCEPT !.lookup =
                  @ \o [i \in 1..(Len(ws) - 1) |-> LookupOf(ws[i + 1])]])

\* A family word taken for Inet4 whatever it is, unless it is "inet6".
FamilyOfLax(word) ==
    CASE word = "inet6" -> Ok([tag |-> "Inet6"])
      [] OTHER -> Ok([tag |-> "Inet4"])

FamilyOf(word) ==
    CASE word = "inet4" -> Ok([tag |-> "Inet4"])
      [] word = "inet6" -> Ok([tag |-> "Inet6"])
      [] OTHER -> Err

RECURSIVE FamilyLoop(_, _, _, _)
FamilyLoop(c, ws, i, n) ==
    IF i > Len(ws) THEN Continue(c)
    ELSE LET f == FamilyOf(ws[i])
         IN  IF ~IsOk(f) THEN Return("InvalidValue", n)
             ELSE FamilyLoop([c EXCEPT !.family = Append(@, f[1])], ws, i + 1, n)

DirFamily(c, ws, n) == FamilyLoop(c, ws, 2, n)

Keywords ==
    {"nameserver", "domain", "search", "sortlist", "options", "lookup", "family"}

\* match keyword { ... }
Dispatch(c, ws, n) ==
    CASE ws[1] = "nameserver" -> DirNameserver(c, ws, n)
      [] ws[1] = "domain" -> DirDomain(c, ws, n)
      [] ws[1] = "search" -> DirSearch(c, ws, n)
      [] ws[1] = "sortlist" -> DirSortlist(c, ws, n)
      [] ws[1] = "options" -> DirOptions(c, ws, n)
      [] ws[1] = "lookup" -> DirLookup(c, ws, n)
      [] ws[1] = "family" -> DirFamily(c, ws, n)
      [] OTHER -> Return("InvalidDirective", n)

\* The whole body of the loop over lines.
LoopBody(c, content, n) ==
    IF IsFullComment(content) THEN Continue(c)
    ELSE IF ~from_utf8_ok(content) THEN Return("InvalidUtf8", n)
    ELSE LET ws == Words(content)
         IN  IF ws = <<>> THEN Continue(c) ELSE Dispatch(c, ws, n)

\* The same with indices that start at 1.
EnumerateFromOne(segs) == [i \in 1..Len(segs) |-> <<i, segs[i]>>]

\* segments.enumerate(): pairs <<index, content>>, indices from 0.
Enumerate(segs) == [i \in 1..Len(segs) |-> <<i - 1, segs[i]>>]

\* bytes.split(|&x| x == b'\n').enumerate(): the iterator of the loop when
\* it starts.
Lines(b) == Enumerate(Split(b, {"\n"}))

(***************************************************************************)
(* The buffers parse() is run on.                                          *)
(***************************************************************************)

RECURSIVE Join(_)
Join(ls) ==
    IF Len(ls) = 1 THEN ls[1] ELSE ls[1] \o "\n" \o Join(Tail(ls))

\* The most lines of a buffer built from a pool of lines.
MaxLines == 3

Buffers(pool) ==
    {Join(ls) : ls \in UNION {[1..n -> pool] : n \in 1..MaxLines}}

\* Blank lines, comments, directives that succeed and directives that fail.
MixedLines ==
    {"", "# c", "\t ;~", "lookup file x",
     "nameserver 8.8.8.8 extra", "family inet4 x", "search a ~"}

\* Directives that succeed and fill the lists of the Config.
ListLines ==
    {"search a b", "search", "search c # d", "sortlist 10.1.0.0 ::1",
     "sortlist", "sortlist fe80::/ffff:: 1.2.3.4/255.255.0.0",
     "nameserver 8.8.8.8", "lookup bind x", "family inet6 inet4"}

\* One line each, alone, after a comment line and before a line of blanks.
SingleLines ==
    {"frobnicate x", "Nameserver 8.8.8.8", "nameserver", "nameserver 1.2.3",
     "nameserver 8.8.8.8;", "domain", "domain example.com", "domain a b",
     "sortlist 0.0.0.0", "sortlist 0.0.0.0/255.0.0.0", "sortlist 1.2.3.4/33",
     "sortlist 130.155.160.0/255.255.240.0 130.155.0.0",
     "sortlist 128.192.0.0", "sortlist 10.0.5.1", "sortlist ::1/1.2.3.4",
     "lookup file", "lookup", "family", "family inet4", "family Inet4",
     "options ndots:8 timeout:8 attempts:8", "\rsearch\ra\f#b", "~# c",
     "nameserver ::1", "nameserver 2001:4860:4860::8888", " \t", "\r",
     VTab, VTab \o "# c", "search a" \o VTab \o "b",
     "lookup" \o VTab \o "file", "options" \o VTab \o "ndots",
     "family inet4" \o VTab \o "inet6"}

SingleInputs ==
    SingleLines \cup {"; c\n" \o l : l \in SingleLines}
    \cup {l \o "\n \t" : l \in SingleLines}

OctetStr(o) ==
    CASE o = 0 -> "0" [] o = 10 -> "10" [] o = 128 -> "128"
      [] o = 240 -> "240" [] o = 255 -> "255"

Dotted(a, b, c, d) ==
    OctetStr(a) \o "." \o OctetStr(b) \o "." \o OctetStr(c) \o "." \o OctetStr(d)

DottedAll(octs) == {Dotted(a, b, c, d) : a, b, c, d \in octs}

\* sortlist lines of one address without a mask.
GuessInputs == {"sortlist " \o a : a \in DottedAll({0, 10, 128})}

\* sortlist lines of one address with an explicit dotted mask.
MaskInputs ==
    {"sortlist " \o a \o "/" \o m :
        a \in {"10.1.2.3", "130.155.160.0"}, m \in DottedAll({0, 240, 255})}

OptionTokens ==
    FlagKeys \cup
    {"ndots:3", "ndots:0", "timeout:7", "attempts:+4", "attempts:4294967295",
     "debug:x", "rotate:", "ndots", "timeout", "attempts", "ndots:abc",
     "ndots:", "timeout:-1", "attempts:4294967296", "ndots:1:2", "debug:1:2",
     "bogus", "bogus:1", "Debug", ":"}

PairTokens == {"debug", "ip6-dotint", "no-ip6-dotint", "ndots:3", "ndots:0"}

ShortOptionLines ==
    {"options"} \cup {"options " \o t : t \in PairTokens}
    \cup {"options " \o t \o " " \o u : t, u \in PairTokens}

OptionInputs ==
    {"options " \o t : t \in OptionTokens}
    \cup {a \o "\n" \o b : a, b \in ShortOptionLines}

Inputs ==
    Buffers(MixedLines) \cup Buffers(ListLines) \cup SingleInputs
    \cup GuessInputs \cup MaskInputs \cup OptionInputs

(***************************************************************************)
(* parse() as a state machine.  A line takes one step if it is skipped or  *)
(* is not UTF-8, and two if it has a keyword: the first reads its words,   *)
(* the second is the arm of the match on the keyword.                      *)
(***************************************************************************)

Running == [tag |-> "Running"]

Init ==
    /\ bytes \in Inputs
    /\ lines = Lines(bytes)
    /\ words = <<>>
    /\ cfg = DefaultConfig
    /\ result = Running

\* The loop is at the head of its body, with a line to process.
AtLine == result = Running /\ lines # <<>> /\ words = <<>>

\* The item the iterator yielded last: <<index, content>>.
Cur == Head(lines)

\* The effect of the end of an iteration: the Config moves on, or parse
\* returns the error and the Config it was building is dropped.
Take(out) ==
    /\ bytes' = bytes
    /\ words' = <<>>
    /\ IF out.tag = "Continue"
       THEN cfg' = out.cfg /\ lines' = Tail(lines) /\ result' = result
       ELSE /\ result' = [tag |-> "Err", kind |-> out.kind, line |-> out.line]
            /\ UNCHANGED <<cfg, lines>>

\* continue 'lines on a full comment.
SkipComment ==
    /\ AtLine
    /\ IsFullComment(Cur[2])
    /\ Take(Continue(cfg))

\* from_utf8 fails on a line that is no full comment.
BadUtf8 ==
    /\ AtLine
    /\ ~IsFullComment(Cur[2])
    /\ ~from_utf8_ok(Cur[2])
    /\ Take(Return("InvalidUtf8", Cur[1]))

\* The words of the line at hand, if it is text: no full comment, valid UTF-8.
CurWords ==
    IF ~IsFullComment(Cur[2]) /\ from_utf8_ok(Cur[2]) THEN Ok(Words(Cur[2])) ELSE Err

\* No keyword on the line: continue.
SkipBlank ==
    /\ AtLine
    /\ CurWords = Ok(<<>>)
    /\ Take(Continue(cfg))

\* The line has a keyword: on to the match, with the words of the line.
ReadWords ==
    /\ AtLine
    /\ LET w == CurWords
       IN  IsOk(w) /\ w[1] # <<>> /\ words' = w[1]
    /\ UNCHANGED <<bytes, lines, cfg, result>>

\* The match on the keyword is at the arm of kw.
AtArm(kw) == result = Running /\ words # <<>> /\ words[1] = kw

Nameserver == AtArm("nameserver") /\ Take(DirNameserver(cfg, words, Cur[1]))

Domain == AtArm("domain") /\ Take(DirDomain(cfg, words, Cur[1]))

Search == AtArm("search") /\ Take(DirSearch(cfg, words, Cur[1]))

Sortlist == AtArm("sortlist") /\ Take(DirSortlist(cfg, words, Cur[1]))

Options == AtArm("options") /\ Take(DirOptions(cfg, words, Cur[1]))

Lookup == AtArm("lookup") /\ Take(DirLookup(cfg, words, Cur[1]))

Family == AtArm("family") /\ Take(DirFamily(cfg, words, Cur[1]))

\* The catch-all arm of the match on the keyword.
UnknownDirective ==
    /\ result = Running
    /\ words # <<>>
    /\ words[1] \notin Keywords
    /\ Take(Return("InvalidDirective", Cur[1]))

\* The loop is over: Ok(cfg).
ReturnOk ==
    /\ result = Running
    /\ lines = <<>>
    /\ result' = [tag |-> "Ok", cfg |-> cfg]
    /\ UNCHANGED <<bytes, lines, words, cfg>>

Next ==
    \/ SkipComment
    \/ BadUtf8
    \/ SkipBlank
    \/ ReadWords
    \/ Nameserver
    \/ Domain
    \/ Search
    \/ Sortlist
    \/ Options
    \/ Lookup
    \/ Family
    \/ UnknownDirective
    \/ ReturnOk

Spec == Init /\ [][Next]_vars

(***************************************************************************)
(* parse() as a function of the buffer: the loop run to its end.           *)
(***************************************************************************)

RECURSIVE RunFrom(_, _)
RunFrom(c, items) ==
    IF items = <<>> THEN [tag |-> "Ok", cfg |-> c]
    ELSE LET out == LoopBody(c, items[1][2], items[1][1])
         IN  IF out.tag = "Return"
             THEN [tag |-> "Err", kind |-> out.kind, line |-> out.line]
             ELSE RunFrom(out.cfg, Tail(items))

parse(b) == RunFrom(DefaultConfig, Lines(b))

Done == result # Running

\* The steps of the state machine compute parse().
StepsComputeParse == Done => result = parse(bytes)

(***************************************************************************)
(* Vocabulary of the properties: the buffer as its '\n'-separated          *)
(* segments, and what the directives of a buffer say.                      *)
(***************************************************************************)

Segs == Split(bytes, {"\n"})

Min(S) == CHOOSE x \in S : \A y \in S : x <= y
Max(S) == CHOOSE x \in S : \A y \in S : x >= y

\* seg is a directive with keyword kw.
IsDirective(seg, kw) ==
    /\ ~IsFullComment(seg)
    /\ from_utf8_ok(seg)
    /\ LET w == Words(seg) IN w # <<>> /\ w[1] = kw

\* The indices of the directives kw among segs.
DirectivesOf(segs, kw) == {i \in 1..Len(segs) : IsDirective(segs[i], kw)}

\* The tokens after the keyword of every directive kw of segs, in order.
RECURSIVE ArgsOf(_, _)
ArgsOf(segs, kw) ==
    IF segs = <<>> THEN <<>>
    ELSE (IF IsDirective(segs[1], kw) THEN Tail(Words(segs[1])) ELSE <<>>)
         \o ArgsOf(Tail(segs), kw)

\* A line that is erroneous: processed on its own, it makes parse() fail.
Erroneous(seg) == LoopBody(DefaultConfig, seg, 0).tag = "Return"

ErroneousLines == {i \in 1..Len(Segs) : Erroneous(Segs[i])}

\* C1: parse is fail-fast over lines, top to bottom.  If any line of the
\* buffer is erroneous, parse returns an error, of the kind of the FIRST
\* erroneous line and carrying that line's 0-based index among all the
\* '\n'-separated segments (blank and comment lines counted), and what
\* follows that line has no influence: the result is that of the buffer cut
\* after it.
C1_FailFastFirstError ==
    (Done /\ ErroneousLines # {}) =>
        LET first == Min(ErroneousLines)
        IN  /\ result.tag = "Err"
            /\ result.line = first - 1
            /\ result.kind = LoopBody(DefaultConfig, Segs[first], 0).kind
            /\ result = parse(Join(SubSeq(Segs, 1, first)))

\* A parse that failed at a line that is not the first, with a later
\* erroneous line of another kind.
C1_Witness ==
    /\ Done
    /\ result.tag = "Err"
    /\ result.line = 1
    /\ \E j \in ErroneousLines :
          /\ j > 2
          /\ LoopBody(DefaultConfig, Segs[j], 0).kind # result.kind

\* The bits of a dotted mask, highest first.
MaskBits(m) == [i \in 1..32 |-> Bit(m[((i - 1) \div 8) + 1], 7 - ((i - 1) % 8))]

\* The bits of m are a left-aligned run of ones followed by zeros only.
Contiguous(m) ==
    \A i, j \in 1..32 : (i < j /\ MaskBits(m)[j] = 1) => MaskBits(m)[i] = 1

\* The buffer is one sortlist line of one token ADDRESS/MASK, both dotted
\* IPv4 literals, the address not zero.
OneMaskedV4 ==
    /\ Len(Segs) = 1
    /\ IsDirective(Segs[1], "sortlist")
    /\ Len(Words(Segs[1])) = 2
    /\ LET pair == SplitN2(Words(Segs[1])[2], "/")
       IN  /\ Len(pair) = 2
           /\ IsOk(ParseIpv4(pair[1]))
           /\ IsOk(ParseIpv4(pair[2]))
           /\ ParseIpv4(pair[1])[1] # <<0, 0, 0, 0>>

MaskOfInput == ParseIpv4(SplitN2(Words(Segs[1])[2], "/")[2])[1]

\* C2: a sortlist token ADDRESS/MASK of dotted IPv4 literals with a
\* non-zero address is accepted only if the bits of MASK are a contiguous
\* left-aligned run of ones; any other MASK makes the line fail with
\* InvalidIp at that line.
C2_MaskMustBeContiguous ==
    (Done /\ OneMaskedV4) =>
        /\ result.tag = "Ok" => Contiguous(MaskOfInput)
        /\ ~Contiguous(MaskOfInput) =>
              result = [tag |-> "Err", kind |-> "InvalidIp", line |-> 0]

\* The first line of the buffer is an options directive with a token.
FirstIsOptions ==
    IsDirective(Segs[1], "options") /\ Len(Words(Segs[1])) >= 2

FirstOption == Words(Segs[1])[2]

\* The number of ':' in a token.
Colons(t) == Cardinality({i \in 1..Len(t) : Char(t, i) = ":"})

\* The value of a token of an options line lacks or is no unsigned integer.
ValueMissingOrBad(t) ==
    Len(SplitN2(t, ":")) = 1 \/ ~IsOk(ParseU32(SplitN2(t, ":")[2]))

\* C3: in an options line, a token whose key is ndots, timeout or attempts
\* and that has no ':value' part, or whose value is no unsigned integer, makes
\* parse fail with InvalidOptionValue at that line; InvalidOption is returned
\* only for a key outside the recognized option keys.
C3_MissingValueIsInvalidOptionValue ==
    (Done /\ FirstIsOptions) =>
        LET key == SplitN2(FirstOption, ":")[1]
        IN  /\ (key \in ValueKeys /\ Colons(FirstOption) <= 1
                   /\ ValueMissingOrBad(FirstOption)) =>
                  result = [tag |-> "Err", kind |-> "InvalidOptionValue", line |-> 0]
            /\ (Len(Words(Segs[1])) = 2
                   /\ result = [tag |-> "Err", kind |-> "InvalidOption", line |-> 0]) =>
                  key \notin (FlagKeys \cup ValueKeys)

\* C4: in an options line, a token that contains a second ':' makes parse
\* fail with ExtraData at that line, whatever its key.
C4_SecondColonIsExtraData ==
    (Done /\ FirstIsOptions /\ Colons(FirstOption) >= 2) =>
        result = [tag |-> "Err", kind |-> "ExtraData", line |-> 0]

\* C5: search is replaced as a whole.  After a successful parse of a buffer
\* with a search directive, search is exactly the token list of the LAST
\* search directive, in order: empty if that one is bare, and with nothing
\* of the earlier ones.
C5_SearchIsLastDirective ==
    (result.tag = "Ok" /\ DirectivesOf(Segs, "search") # {}) =>
        result.cfg.search = Tail(Words(Segs[Max(DirectivesOf(Segs, "search"))]))

\* A successful parse of `search` with tokens followed later by a bare
\* `search`.
C5_Witness ==
    /\ result.tag = "Ok"
    /\ \E i, j \in DirectivesOf(Segs, "search") :
          /\ i < j
          /\ j = Max(DirectivesOf(Segs, "search"))
          /\ Len(Words(Segs[i])) > 1
          /\ Len(Words(Segs[j])) = 1
    /\ result.cfg.search = <<>>

\* The entry a nameserver, sortlist, lookup or family token stands for.
NameserverOf(t) == ParseIp(t)[1]
NetworkOf(t) == ParseNetwork(t)[1]
LookupEntry(t) ==
    IF t = "file" THEN [tag |-> "File"]
    ELSE IF t = "bind" THEN [tag |-> "Bind"]
    ELSE [tag |-> "Extra", name |-> t]
FamilyEntry(t) == IF t = "inet4" THEN [tag |-> "Inet4"] ELSE [tag |-> "Inet6"]

\* C6: sortlist is cleared and rebuilt by every sortlist directive, while
\* nameservers, lookup and family only grow.  After a successful parse,
\* sortlist is the networks of the tokens of the LAST sortlist directive
\* alone, in token order (empty if it has no token), and nameservers, lookup
\* and family hold the entries of ALL their directives, in order of
\* appearance, duplicates included.
C6_SortlistRebuiltOthersAppend ==
    result.tag = "Ok" =>
        LET sl == DirectivesOf(Segs, "sortlist")
            last == IF sl = {} THEN <<>> ELSE Tail(Words(Segs[Max(sl)]))
            ns == ArgsOf(Segs, "nameserver")
            lk == ArgsOf(Segs, "lookup")
            fm == ArgsOf(Segs, "family")
        IN  /\ result.cfg.sortlist = [i \in 1..Len(last) |-> NetworkOf(last[i])]
            /\ result.cfg.nameservers = [i \in 1..Len(ns) |-> NameserverOf(ns[i])]
            /\ result.cfg.lookup = [i \in 1..Len(lk) |-> LookupEntry(lk[i])]
            /\ result.cfg.family = [i \in 1..Len(fm) |-> FamilyEntry(fm[i])]

\* A successful parse of two sortlist directives with tokens and of a
\* nameserver directive: the sortlist holds the tokens of the second alone.
C6_Witness ==
    /\ result.tag = "Ok"
    /\ \E i, j \in DirectivesOf(Segs, "sortlist") :
          /\ i < j
          /\ Len(Words(Segs[i])) > 1
          /\ Len(result.cfg.sortlist) = Len(Words(Segs[j])) - 1
          /\ Words(Segs[i]) # Words(Segs[j])
    /\ Len(ArgsOf(Segs, "sortlist")) > Len(result.cfg.sortlist)
    /\ Len(result.cfg.sortlist) > 0
    /\ Len(result.cfg.nameservers) = 1

\* The lines parse() went through before it returned: all of them, or those
\* up to the line of the error.
Reached ==
    IF result.tag = "Ok" THEN 1..Len(Segs) ELSE 1..(result.line + 1)

FailedAt(i) == result.tag = "Err" /\ result.line = i - 1

\* C7: lookup and family differ in strictness.  A lookup directive never
\* fails, whatever its tokens, and appends File for `file`, Bind for `bind`
\* and Extra(token) for any other token; a family directive fails, with
\* InvalidValue at its line, exactly when one of its tokens is neither
\* `inet4` nor `inet6`, and otherwise appends Inet4 and Inet6.
C7_LookupLaxFamilyStrict ==
    Done =>
        /\ \A i \in Reached :
              /\ IsDirective(Segs[i], "lookup") => ~FailedAt(i)
              /\ IsDirective(Segs[i], "family") =>
                    /\ FailedAt(i) <=>
                          \E k \in 2..Len(Words(Segs[i])) :
                              Words(Segs[i])[k] \notin {"inet4", "inet6"}
                    /\ FailedAt(i) => result.kind = "InvalidValue"
        /\ result.tag = "Ok" =>
              LET lk == ArgsOf(Segs, "lookup")
                  fm == ArgsOf(Segs, "family")
              IN  /\ result.cfg.lookup = [i \in 1..Len(lk) |-> LookupEntry(lk[i])]
                  /\ result.cfg.family =
                        [i \in 1..Len(fm) |->
                            IF fm[i] = "inet4" THEN [tag |-> "Inet4"]
                            ELSE [tag |-> "Inet6"]]

\* A parse that went through a lookup directive with a token that is no
\* source name, then failed at a family directive with an unknown token.
C7_Witness ==
    /\ result.tag = "Err"
    /\ result.kind = "InvalidValue"
    /\ IsDirective(Segs[result.line + 1], "family")
    /\ \E i \in 1..result.line :
          /\ IsDirective(Segs[i], "lookup")
          /\ \E k \in 2..Len(Words(Segs[i])) :
                Words(Segs[i])[k] \notin {"file", "bind"}

\* The number of octets equal to 0 at the end of an address, counted from
\* the last octet backward over the last three.
TrailingZeroOctets(a) ==
    Max({k \in 0..3 : \A i \in (5 - k)..4 : a[i] = 0})

\* The mask of 4 - k octets 255 then k octets 0.
MaskOfZeros(k) == [i \in 1..4 |-> IF i <= 4 - k THEN 255 ELSE 0]

\* C8: a non-zero dotted IPv4 sortlist token given without a mask gets the
\* mask fixed by the number k of its trailing octets equal to 0 (over the
\* last three): 255.255.255.255 for 0, 255.255.255.0 for 1, 255.255.0.0 for
\* 2, 255.0.0.0 for 3.  A zero octet that is not trailing widens nothing.
C8_MaskFromTrailingZeroOctets ==
    (result.tag = "Ok" /\ DirectivesOf(Segs, "sortlist") # {}) =>
        LET toks == Tail(Words(Segs[Max(DirectivesOf(Segs, "sortlist"))]))
        IN  /\ Len(result.cfg.sortlist) = Len(toks)
            /\ \A i \in 1..Len(toks) :
                  IsOk(ParseIpv4(toks[i])) =>
                      LET a == ParseIpv4(toks[i])[1]
                      IN  result.cfg.sortlist[i] =
                              V4(a, MaskOfZeros(TrailingZeroOctets(a)))

\* A successful parse of an address with one trailing zero octet and a zero
\* octet that is not trailing.
C8_Witness ==
    /\ result.tag = "Ok"
    /\ Len(result.cfg.sortlist) = 1
    /\ result.cfg.sortlist[1].addr[1] # 0
    /\ result.cfg.sortlist[1].addr[2] = 0
    /\ result.cfg.sortlist[1].addr[3] # 0
    /\ result.cfg.sortlist[1].addr[4] = 0
    /\ result.cfg.sortlist[1].mask = <<255, 255, 255, 0>>

\* A line that is empty or whitespace-only, or whose first byte that is
\* neither a tab nor a space is ';' or '#'.
InertLine(s) ==
    \/ \A i \in 1..Len(s) : is_whitespace(Char(s, i))
    \/ \E i \in 1..Len(s) :
          /\ Char(s, i) \in {";", "#"}
          /\ \A j \in 1..(i - 1) : Char(s, j) \in {" ", "\t"}

\* The indices, in order, of the lines of segs from i on that are not inert.
RECURSIVE KeptFrom(_, _)
KeptFrom(segs, i) ==
    IF i > Len(segs) THEN <<>>
    ELSE (IF InertLine(segs[i]) THEN <<>> ELSE <<i>>) \o KeptFrom(segs, i + 1)

\* C9: comment-only and blank lines never alter the Config.  With every
\* line removed that is empty, whitespace-only or a full comment (valid
\* UTF-8 or not), the buffer parses to the same outcome: the same Config
\* field for field, or an error of the same kind at the same line, whose
\* number alone shifts by the lines removed before it.
C9_InertLinesChangeNothing ==
    Done =>
        LET kept == KeptFrom(Segs, 1)
            bare == RunFrom(DefaultConfig,
                            [j \in 1..Len(kept) |-> <<j - 1, Segs[kept[j]]>>])
        IN  /\ result.tag = bare.tag
            /\ result.tag = "Ok" => result.cfg = bare.cfg
            /\ result.tag = "Err" =>
                  /\ result.kind = bare.kind
                  /\ result.line = kept[bare.line + 1] - 1

\* A successful parse that changed the Config, of a buffer with a comment
\* that holds a byte that is not UTF-8 and another inert line.
C9_Witness ==
    /\ result.tag = "Ok"
    /\ result.cfg # DefaultConfig
    /\ \E i \in 1..Len(Segs) : InertLine(Segs[i]) /\ ~from_utf8_ok(Segs[i])
    /\ \E i \in 1..Len(Segs) : InertLine(Segs[i]) /\ from_utf8_ok(Segs[i])

\* The field of the Config a flag keyword sets.
FieldOf(key) ==
    CASE key = "debug" -> "debug"
      [] key = "rotate" -> "rotate"
      [] key = "no-check-names" -> "no_check_names"
      [] key = "inet6" -> "inet6"
      [] key = "ip6-bytestring" -> "ip6_bytestring"
      [] key = "edns0" -> "edns0"
      [] key = "single-request" -> "single_request"
      [] key = "single-request-reopen" -> "single_request_reopen"
      [] key = "no-reload" -> "no_reload"
      [] key = "trust-ad" -> "trust_ad"
      [] key = "no-tld-query" -> "no_tld_query"
      [] key = "use-vc" -> "use_vc"

\* The positions in toks of the tokens whose key is in keys.
Occurrences(toks, keys) ==
    {i \in 1..Len(toks) : SplitN2(toks[i], ":")[1] \in keys}

\* C10: option values accumulate over all the options lines; the last
\* occurrence wins and nothing toggles.  After a successful parse, a flag
\* other than ip6_dotint is true iff its keyword occurs in some options
\* directive; ip6_dotint is true iff the last of the tokens ip6-dotint and
\* no-ip6-dotint is ip6-dotint; ndots, timeout and attempts each have the
\* value of their last occurrence, or the default of the Config if none.
C10_OptionsAccumulate ==
    result.tag = "Ok" =>
        LET toks == ArgsOf(Segs, "options")
            dotint == Occurrences(toks, {"ip6-dotint", "no-ip6-dotint"})
        IN  /\ \A key \in FlagKeys \ {"ip6-dotint", "no-ip6-dotint"} :
                  result.cfg[FieldOf(key)] = (Occurrences(toks, {key}) # {})
            /\ result.cfg.ip6_dotint =
                  (dotint # {} /\ SplitN2(toks[Max(dotint)], ":")[1] = "ip6-dotint")
            /\ \A key \in ValueKeys :
                  result.cfg[key] =
                      IF Occurrences(toks, {key}) = {} THEN DefaultConfig[key]
                      ELSE ParseU32(SplitN2(toks[Max(Occurrences(toks, {key}))],
                                            ":")[2])[1]

\* A successful parse where ip6-dotint is given and then taken back on a
\* later line, and ndots is given twice.
C10_Witness ==
    /\ result.tag = "Ok"
    /\ Len(Segs) = 2
    /\ LET toks == ArgsOf(Segs, "options")
       IN  /\ Len(toks) = 4
           /\ toks[1] = "ip6-dotint"
           /\ toks[2] = "ndots:3"
           /\ toks[3] = "ndots:0"
           /\ toks[4] = "no-ip6-dotint"
    /\ result.cfg.ndots = U32(0)
    /\ ~result.cfg.ip6_dotint

====
